---- MODULE Spec2Model ----
(***************************************************************************)
(* Model of the vst3go C bridge (src/bridge/component.c, bridge.c): the    *)
(* COM-style component with its three interface facades and one shared     *)
(* reference count, the plugin factory singleton, and the forwarding of    *)
(* every other vtable method to a Go callback.                             *)
(*                                                                         *)
(* Five state machines are given over one set of variables:                *)
(*   Spec         queryInterface/addRef/release calls on components        *)
(*   SpecMethods  the other vtable methods of a component                  *)
(*   SpecFactory  host calls on the factory and module entry points        *)
(*   SpecThreads  two host threads whose addRef/release calls on one       *)
(*                component interleave at the level of loads and stores    *)
(*   SpecHelpers  the parameter-queue and event-list helpers of bridge.c   *)
(* component.c and bridge.c share no state, so each machine leaves the     *)
(* other's variables alone.                                                *)
(***************************************************************************)
EXTENDS Integers, Sequences, FiniteSets

VARIABLES
    comps,              \* heap: address -> struct Component (component.c:21-32)
    hist,               \* per component: calls made since createComponent
    last,               \* the last host call: inputs, outputs, callbacks made
    globalFactory,      \* bridge.c:41
    factory,            \* heap cell of the PluginFactory (bridge.c:15-18)
    mallocs,            \* number of PluginFactory allocations so far
    moduleInitialized,  \* bridge.c:57
    hostRefs,           \* factory references the host has been given and not released
    uaf,                \* a freed object has been read or written
    thr,                \* SpecThreads: per thread, the call in progress
    overlapped,         \* SpecThreads: some call began while another was in progress
    callerMem           \* SpecHelpers: the caller's cells behind sampleOffset, value, event

vars == <<comps, hist, last, globalFactory, factory, mallocs,
          moduleInitialized, hostRefs, uaf, thr, overlapped, callerMem>>

compVars    == <<comps, hist>>
factoryVars == <<globalFactory, factory, mallocs, moduleInitialized, hostRefs>>
threadVars  == <<thr, overlapped>>

----------------------------------------------------------------------------
(* Bounds *)

MaxCalls   == 3     \* queryInterface/addRef/release calls on the components now on the heap
MaxFRefs   == 3     \* factory references the host holds at one time
MaxTCalls  == 4     \* addRef/release calls the two threads make in one run
MaxClasses == 2     \* largest value GoCountClasses returns
MaxBelow   == 2     \* how far releases take the refCount field of a freed factory below K

Addrs      == {1, 2}           \* addresses malloc can return for a Component
GoHandles  == {101, 102}        \* values of the void* goComponent argument
GoResults  == {0, 1}            \* values a Go callback may return
Threads    == {1, 2}
FactoryAddrs  == {7, 8}         \* addresses malloc can return for the PluginFactory
\* values the refCount field of a freed PluginFactory may hold: free() stores
\* the low 32 bits K of the allocator's key over it, a number drawn at random
\* when the process starts, and later writes of the code add to that.  No
\* step draws from this set: the factory carries the field as K + refCount
\* and a result read from it as K + ret (retKey = 1).
GarbageValues == (0 - 2147483647 - 1) .. 2147483647
ClassCounts   == 0 .. MaxClasses            \* values GoCountClasses may return
ClassIndexes  == (0 - 2) .. (MaxClasses + 1) \* index arguments of getClassInfo
ClassIds      == {11, 12}       \* values of the cid argument of createInstance
SampleOffsetCell == 31          \* address of the caller's int32_t behind sampleOffset
ValueCell        == 32          \* address of the caller's double behind value
EventCell        == 33          \* address of the caller's Steinberg_Vst_Event
CallerCells      == {SampleOffsetCell, ValueCell, EventCell}

----------------------------------------------------------------------------
(* Result codes used by the bridge (literals of component.c / bridge.c) *)

kResultOk       == 0
kNoInterface    == 0 - 1
kResultFalse    == 1
kNotImplemented == 3

----------------------------------------------------------------------------
(* Pointers.  A pointer is a heap address and the member it points at.     *)

NULL      == [base |-> 0, field |-> "null"]
NoPtr     == [base |-> 0, field |-> "none"]     \* call has no out-parameter
Ptr(a, f) == [base |-> a, field |-> f]

----------------------------------------------------------------------------
(* Interface ids: 16 bytes each (Steinberg_TUID), compared with memcmp.    *)

TUIDSize == 16

Steinberg_FUnknown_iid ==
    <<0,0,0,0, 0,0,0,0, 192,0,0,0, 0,0,0,70>>
Steinberg_IPluginBase_iid ==
    <<34,136,141,219, 21,110,69,174, 131,88,179,72, 8,25,6,37>>
Steinberg_Vst_IComponent_iid ==
    <<232,49,255,49, 242,213,67,1, 146,142,187,238, 37,105,120,2>>
Steinberg_Vst_IAudioProcessor_iid ==
    <<66,4,63,153, 183,218,69,60, 165,105,231,157, 154,174,195,61>>
Steinberg_Vst_IEditController_iid ==
    <<220,215,187,227, 119,66,68,141, 168,116,170,204, 151,156,117,158>>
Steinberg_IPluginFactory_iid ==
    <<122,77,129,28, 82,17,74,31, 174,217,210,238, 11,67,191,159>>

\* ids a host may pass that the component does not implement
OtherIids ==
    { Steinberg_IPluginFactory_iid,
      <<0,0,0,0, 0,0,0,0, 192,0,0,0, 0,0,0,71>>,        \* FUnknown, last byte off
      <<66,4,63,153, 183,218,69,60, 0,0,0,0, 0,0,0,0>>, \* IAudioProcessor, first half
      <<221,215,187,227, 119,66,68,141, 168,116,170,204, 151,156,117,158>> }

ComponentIids ==
    { Steinberg_FUnknown_iid, Steinberg_IPluginBase_iid,
      Steinberg_Vst_IComponent_iid, Steinberg_Vst_IAudioProcessor_iid,
      Steinberg_Vst_IEditController_iid }

Iids == ComponentIids \cup OtherIids

\* memcmp(a, b, n): difference of the first differing byte among the first n
memcmp(a, b, n) ==
    LET D == { i \in 1 .. n : a[i] # b[i] }
    IN  IF D = {} THEN 0
        ELSE LET i == CHOOSE k \in D : \A j \in D : k <= j
             IN  a[i] - b[i]

----------------------------------------------------------------------------
(* Events a call produces, in order: Go callbacks and free().              *)

GoCall(name, h) == [kind |-> "go",   name |-> name,   arg |-> h]
Free(a)         == [kind |-> "free", name |-> "free", arg |-> a]
\* the process is killed by a signal: nothing runs after it
Signal(name)    == [kind |-> "signal", name |-> name, arg |-> 0]

\* (Steinberg_uint32) n for an int n: n itself when it is not negative,
\* 2^32 + n otherwise.  The value is bit31 * 2^31 + low31; it is kept as
\* these two parts so that every number stays below 2^31.
Uint32(n) ==
    [ key   |-> 0,
      bit31 |-> IF n < 0 THEN 1 ELSE 0,
      low31 |-> IF n < 0 THEN (n + 2147483647) + 1 ELSE n ]

----------------------------------------------------------------------------
(* struct Component on the heap *)

NoComponent ==
    [ state          |-> "unalloc",
      audioProcessor |-> 0,         \* audioProcessor.component
      editController |-> 0,         \* editController.component
      refCount       |-> 0,
      goComponent    |-> 0 ]

\* a block after free(): its contents are no longer the program's
FreedComponent == [NoComponent EXCEPT !.state = "freed"]

NoHist ==
    [ handle |-> 0,     \* the goComponent given to createComponent
      qi |-> 0, addRef |-> 0, release |-> 0,    \* calls that moved the count
      goRelease |-> 0, free |-> 0,              \* GoReleaseComponent and free() calls
      freedBy |-> {} ]  \* the threads whose free() put the block on their free list

\* createComponent's initialisation of the malloc'ed block at address a
createComponent(a, goComponent) ==
    [ state          |-> "live",
      audioProcessor |-> a,
      editController |-> a,
      refCount       |-> 1,
      goComponent    |-> goComponent ]

\* Faulty variant: component->refCount++ (the count before the update is returned)
component_addRef_postIncrement(cs, this) ==
    [ mem    |-> [cs EXCEPT ![this].refCount = @ + 1],
      ret    |-> cs[this].refCount,
      events |-> << >> ]

\* ++component->refCount
component_addRef(cs, this) ==
    [ mem    |-> [cs EXCEPT ![this].refCount = @ + 1],
      ret    |-> cs[this].refCount + 1,
      events |-> << >> ]

\* Faulty variant: the Go side is never told that the component is gone
component_release_noGoRelease(cs, this) ==
    LET n == cs[this].refCount - 1
    IN  IF n = 0
        THEN [ mem    |-> [cs EXCEPT ![this] = FreedComponent],
               ret    |-> 0,
               events |-> << Free(this) >> ]
        ELSE [ mem    |-> [cs EXCEPT ![this].refCount = n],
               ret    |-> n,
               events |-> << >> ]

\* if (--component->refCount == 0) { GoReleaseComponent; free; return 0 }
component_release(cs, this) ==
    LET n == cs[this].refCount - 1
    IN  IF n = 0
        THEN [ mem    |-> [cs EXCEPT ![this] = FreedComponent],
               ret    |-> 0,
               events |-> << GoCall("GoReleaseComponent", cs[this].goComponent),
                             Free(this) >> ]
        ELSE [ mem    |-> [cs EXCEPT ![this].refCount = n],
               ret    |-> n,
               events |-> << >> ]

\* Faulty variant: sizeof applied to the decayed array parameter (a pointer)
IidEq_sizeofPointer(a, b) == memcmp(a, b, 8) = 0

\* memcmp(iid, X_iid, sizeof(Steinberg_TUID)) == 0
IidEq(a, b) == memcmp(a, b, TUIDSize) = 0

\* Faulty variant: the component itself is handed out for IAudioProcessor
component_queryInterface_sameObject(cs, this, iid) ==
    IF \/ IidEq(iid, Steinberg_FUnknown_iid)
       \/ IidEq(iid, Steinberg_IPluginBase_iid)
       \/ IidEq(iid, Steinberg_Vst_IComponent_iid)
       \/ IidEq(iid, Steinberg_Vst_IAudioProcessor_iid)
    THEN [ mem |-> component_addRef(cs, this).mem,
           events |-> component_addRef(cs, this).events,
           obj |-> Ptr(this, "self"), ret |-> kResultOk ]
    ELSE IF IidEq(iid, Steinberg_Vst_IEditController_iid)
    THEN [ mem |-> component_addRef(cs, this).mem,
           events |-> component_addRef(cs, this).events,
           obj |-> Ptr(this, "editController"), ret |-> kResultOk ]
    ELSE [ mem |-> cs, events |-> << >>, obj |-> NULL, ret |-> kNoInterface ]

\* Faulty variant: the IEditController branch forgets component_addRef
component_queryInterface_noAddRef(cs, this, iid) ==
    IF \/ IidEq(iid, Steinberg_FUnknown_iid)
       \/ IidEq(iid, Steinberg_IPluginBase_iid)
       \/ IidEq(iid, Steinberg_Vst_IComponent_iid)
    THEN [ mem |-> component_addRef(cs, this).mem,
           events |-> component_addRef(cs, this).events,
           obj |-> Ptr(this, "self"), ret |-> kResultOk ]
    ELSE IF IidEq(iid, Steinberg_Vst_IAudioProcessor_iid)
    THEN [ mem |-> component_addRef(cs, this).mem,
           events |-> component_addRef(cs, this).events,
           obj |-> Ptr(this, "audioProcessor"), ret |-> kResultOk ]
    ELSE IF IidEq(iid, Steinberg_Vst_IEditController_iid)
    THEN [ mem |-> cs, events |-> << >>,
           obj |-> Ptr(this, "editController"), ret |-> kResultOk ]
    ELSE [ mem |-> cs, events |-> << >>, obj |-> NULL, ret |-> kNoInterface ]

component_queryInterface(cs, this, iid) ==
    IF \/ IidEq(iid, Steinberg_FUnknown_iid)
       \/ IidEq(iid, Steinberg_IPluginBase_iid)
       \/ IidEq(iid, Steinberg_Vst_IComponent_iid)
    THEN [ mem |-> component_addRef(cs, this).mem,
           events |-> component_addRef(cs, this).events,
           obj |-> Ptr(this, "self"), ret |-> kResultOk ]
    ELSE IF IidEq(iid, Steinberg_Vst_IAudioProcessor_iid)
    THEN [ mem |-> component_addRef(cs, this).mem,
           events |-> component_addRef(cs, this).events,
           obj |-> Ptr(this, "audioProcessor"), ret |-> kResultOk ]
    ELSE IF IidEq(iid, Steinberg_Vst_IEditController_iid)
    THEN [ mem |-> component_addRef(cs, this).mem,
           events |-> component_addRef(cs, this).events,
           obj |-> Ptr(this, "editController"), ret |-> kResultOk ]
    ELSE [ mem |-> cs, events |-> << >>, obj |-> NULL, ret |-> kNoInterface ]

\* Faulty variant: the facade answers FUnknown with itself
audio_queryInterface_ownIdentity(cs, thisInterface, iid) ==
    IF IidEq(iid, Steinberg_FUnknown_iid)
    THEN [ mem |-> component_addRef(cs, cs[thisInterface.base].audioProcessor).mem,
           events |-> << >>, obj |-> thisInterface, ret |-> kResultOk ]
    ELSE component_queryInterface(cs, cs[thisInterface.base].audioProcessor, iid)

\* the facades reach the component through their back pointer
audio_queryInterface(cs, thisInterface, iid) ==
    component_queryInterface(cs, cs[thisInterface.base].audioProcessor, iid)
audio_addRef(cs, thisInterface) ==
    component_addRef(cs, cs[thisInterface.base].audioProcessor)
audio_release(cs, thisInterface) ==
    component_release(cs, cs[thisInterface.base].audioProcessor)

controller_queryInterface(cs, thisInterface, iid) ==
    component_queryInterface(cs, cs[thisInterface.base].editController, iid)
controller_addRef(cs, thisInterface) ==
    component_addRef(cs, cs[thisInterface.base].editController)
controller_release(cs, thisInterface) ==
    component_release(cs, cs[thisInterface.base].editController)

----------------------------------------------------------------------------
(* The three vtables, in slot order.  The host calls a method by its slot. *)

componentVtbl ==
    << "component_queryInterface", "component_addRef", "component_release",
       "component_initialize", "component_terminate",
       "component_getControllerClassId", "component_setIoMode",
       "component_getBusCount", "component_getBusInfo",
       "component_getRoutingInfo", "component_activateBus",
       "component_setActive", "component_setState", "component_getState" >>

audioProcessorVtbl ==
    << "audio_queryInterface", "audio_addRef", "audio_release",
       "audio_setBusArrangements", "audio_getBusArrangement",
       "audio_canProcessSampleSize", "audio_getLatencySamples",
       "audio_setupProcessing", "audio_setProcessing", "audio_process",
       "audio_getTailSamples" >>

editControllerVtbl ==
    << "controller_queryInterface", "controller_addRef", "controller_release",
       "controller_initialize", "controller_terminate",
       "controller_setComponentState", "controller_setState",
       "controller_getState", "controller_getParameterCount",
       "controller_getParameterInfo", "controller_getParamStringByValue",
       "controller_getParamValueByString", "controller_normalizedParamToPlain",
       "controller_plainParamToNormalized", "controller_getParamNormalized",
       "controller_setParamNormalized", "controller_setComponentHandler",
       "controller_createView" >>

\* return GoXxx(handle, ...): one callback, its result handed back
Forward(name, h, goRet) == [ret |-> goRet, events |-> << GoCall(name, h) >>]
\* GoXxx(handle, ...); return fixed: one callback, a fixed result
ForwardVoid(name, h, fixed) == [ret |-> fixed, events |-> << GoCall(name, h) >>]
\* return fixed: no callback
Fixed(fixed) == [ret |-> fixed, events |-> << >>]

\* component->goComponent, audioProc->component->goComponent,
\* controller->component->goComponent
component_goComponent(cs, this) == cs[this].goComponent
audio_goComponent(cs, thisInterface) ==
    cs[cs[thisInterface.base].audioProcessor].goComponent
controller_goComponent(cs, thisInterface) ==
    cs[cs[thisInterface.base].editController].goComponent

\* IComponent methods past IUnknown (component.c:205-260)
component_method(cs, this, m, goRet) ==
    LET h == component_goComponent(cs, this)
    IN  CASE m = "component_initialize"   -> Forward("GoComponentInitialize", h, goRet)
          [] m = "component_terminate"    -> Forward("GoComponentTerminate", h, goRet)
          [] m = "component_getControllerClassId" ->
                 ForwardVoid("GoComponentGetControllerClassId", h, kResultOk)
          [] m = "component_setIoMode"    -> Forward("GoComponentSetIoMode", h, goRet)
          [] m = "component_getBusCount"  -> Forward("GoComponentGetBusCount", h, goRet)
          [] m = "component_getBusInfo"   -> Forward("GoComponentGetBusInfo", h, goRet)
          [] m = "component_getRoutingInfo" -> Fixed(kNotImplemented)
          [] m = "component_activateBus"  -> Forward("GoComponentActivateBus", h, goRet)
          [] m = "component_setActive"    -> Forward("GoComponentSetActive", h, goRet)
          [] m = "component_setState"     -> Fixed(kResultOk)
          [] m = "component_getState"     -> Fixed(kResultOk)

\* IAudioProcessor methods past IUnknown (component.c:279-317)
audio_method(cs, thisInterface, m, goRet) ==
    LET h == audio_goComponent(cs, thisInterface)
    IN  CASE m = "audio_setBusArrangements"   -> Forward("GoAudioSetBusArrangements", h, goRet)
          [] m = "audio_getBusArrangement"    -> Forward("GoAudioGetBusArrangement", h, goRet)
          [] m = "audio_canProcessSampleSize" -> Forward("GoAudioCanProcessSampleSize", h, goRet)
          [] m = "audio_getLatencySamples"    -> Forward("GoAudioGetLatencySamples", h, goRet)
          [] m = "audio_setupProcessing"      -> Forward("GoAudioSetupProcessing", h, goRet)
          [] m = "audio_setProcessing"        -> Forward("GoAudioSetProcessing", h, goRet)
          [] m = "audio_process"              -> Forward("GoAudioProcess", h, goRet)
          [] m = "audio_getTailSamples"       -> Forward("GoAudioGetTailSamples", h, goRet)

\* IEditController methods past IUnknown (component.c:336-410)
controller_method(cs, thisInterface, m, goRet) ==
    LET h == controller_goComponent(cs, thisInterface)
    IN  CASE m = "controller_initialize" -> Fixed(kResultOk)
          [] m = "controller_terminate"  -> Fixed(kResultOk)
          [] m = "controller_setComponentState" ->
                 Forward("GoEditControllerSetComponentState", h, goRet)
          [] m = "controller_setState" -> Forward("GoEditControllerSetState", h, goRet)
          [] m = "controller_getState" -> Forward("GoEditControllerGetState", h, goRet)
          [] m = "controller_getParameterCount" ->
                 Forward("GoEditControllerGetParameterCount", h, goRet)
          [] m = "controller_getParameterInfo" ->
                 Forward("GoEditControllerGetParameterInfo", h, goRet)
          [] m = "controller_getParamStringByValue" ->
                 Forward("GoEditControllerGetParamStringByValue", h, goRet)
          [] m = "controller_getParamValueByString" ->
                 Forward("GoEditControllerGetParamValueByString", h, goRet)
          [] m = "controller_normalizedParamToPlain" ->
                 Forward("GoEditControllerNormalizedParamToPlain", h, goRet)
          [] m = "controller_plainParamToNormalized" ->
                 Forward("GoEditControllerPlainParamToNormalized", h, goRet)
          [] m = "controller_getParamNormalized" ->
                 Forward("GoEditControllerGetParamNormalized", h, goRet)
          [] m = "controller_setParamNormalized" ->
                 Forward("GoEditControllerSetParamNormalized", h, goRet)
          [] m = "controller_setComponentHandler" ->
                 Forward("GoEditControllerSetComponentHandler", h, goRet)
          [] m = "controller_createView" ->
                 Forward("GoEditControllerCreateView", h, goRet)

----------------------------------------------------------------------------
(* The record of the last host call *)

Call(op, this, iid, obj, ret, events, owner, pre, post) ==
    [ op |-> op, this |-> this, iid |-> iid, obj |-> obj, ret |-> ret,
      events |-> events, owner |-> owner, pre |-> pre, post |-> post,
      args |-> << >>, out |-> << >>,
      ret31 |-> 0,      \* a Steinberg_uint32 result is
      retKey |-> 0 ]    \*   (retKey * K + ret31 * 2^31 + ret) mod 2^32

\* a call returning the Steinberg_uint32 u
CallU32(c, u) == [c EXCEPT !.ret = u.low31, !.ret31 = u.bit31, !.retKey = u.key]

\* a call whose other arguments and out-parameters are recorded as well
CallWith(c, args, out) == [c EXCEPT !.args = args, !.out = out]

NoCall == Call("none", NULL, << >>, NoPtr, 0, << >>, 0, 0, 0)

Live(c)  == comps[c].state = "live"
Calls(c) == hist[c].qi + hist[c].addRef + hist[c].release
Budget   == Calls(1) + Calls(2) < MaxCalls

\* the events of a call, added to the component's history
Count(events, kind) == Cardinality({ i \in 1 .. Len(events) : events[i].kind = kind })

\* the last call ended in a signal: the process is gone
Crashed == Count(last.events, "signal") > 0

----------------------------------------------------------------------------
(* Spec: host calls on components, one at a time *)

\* nothing known of the allocator's key (see KeyAdmits)
NoKey == [eq |-> {}, ne |-> {}]

NoThread == [pc |-> "idle", op |-> "none", tmp |-> 0, go |-> 0]

InitCommon ==
    /\ last = NoCall
    /\ globalFactory = 0
    /\ factory = [state |-> "unalloc", refCount |-> 0, key |-> NoKey]   \* nothing allocated yet
    /\ mallocs = 0
    /\ moduleInitialized = 0
    /\ hostRefs = 0
    /\ uaf = FALSE
    /\ thr = [t \in Threads |-> NoThread]
    /\ overlapped = FALSE
    /\ callerMem = [c \in CallerCells |-> 0]

Init ==
    /\ comps = [a \in Addrs |-> NoComponent]
    /\ hist = [a \in Addrs |-> NoHist]
    /\ InitCommon

\* createComponent(goComponent): malloc may fail, or return any free block
CreateComponent(h) ==
    /\ \/ /\ last' = Call("createComponent", NULL, << >>, NULL, 0, << >>, 0, 0, 0)
          /\ UNCHANGED compVars
       \/ \E a \in Addrs :
            /\ ~Live(a)
            /\ comps' = [comps EXCEPT ![a] = createComponent(a, h)]
            /\ hist' = [hist EXCEPT ![a] = [NoHist EXCEPT !.handle = h]]
            /\ last' = Call("createComponent", NULL, << >>, Ptr(a, "self"), 0,
                            << >>, a, 0, comps'[a].refCount)
    /\ UNCHANGED <<factoryVars, uaf, threadVars, callerMem>>

\* what a queryInterface call through pointer `this` of component c did
DoQueryInterface(op, c, this, iid, r) ==
    /\ comps' = r.mem
    /\ hist' = [hist EXCEPT ![c].qi = @ + (IF r.ret = kResultOk THEN 1 ELSE 0)]
    /\ last' = Call(op, this, iid, r.obj, r.ret, r.events, c,
                    comps[c].refCount, r.mem[c].refCount)
    /\ UNCHANGED <<factoryVars, uaf, threadVars, callerMem>>

DoAddRef(op, c, this, r) ==
    /\ comps' = r.mem
    /\ hist' = [hist EXCEPT ![c].addRef = @ + 1]
    /\ last' = Call(op, this, << >>, NoPtr, r.ret, r.events, c,
                    comps[c].refCount, r.mem[c].refCount)
    /\ UNCHANGED <<factoryVars, uaf, threadVars, callerMem>>

DoRelease(op, c, this, r) ==
    /\ comps' = r.mem
    /\ hist' = [hist EXCEPT ![c].release = @ + 1,
                            ![c].goRelease = @ + Count(r.events, "go"),
                            ![c].free = @ + Count(r.events, "free")]
    /\ last' = Call(op, this, << >>, NoPtr, r.ret, r.events, c,
                    comps[c].refCount, r.mem[c].refCount)
    /\ UNCHANGED <<factoryVars, uaf, threadVars, callerMem>>

DoMethod(op, c, this, r) ==
    /\ last' = Call(op, this, << >>, NoPtr, r.ret, r.events, c,
                    comps[c].refCount, comps[c].refCount)
    /\ UNCHANGED <<compVars, factoryVars, uaf, threadVars, callerMem>>

ComponentQueryInterface(c, iid) ==
    /\ Live(c) /\ Budget
    /\ DoQueryInterface(componentVtbl[1], c, Ptr(c, "self"), iid,
                        component_queryInterface(comps, c, iid))

ComponentAddRef(c) ==
    /\ Live(c) /\ Budget
    /\ DoAddRef(componentVtbl[2], c, Ptr(c, "self"), component_addRef(comps, c))

ComponentRelease(c) ==
    /\ Live(c) /\ Budget
    /\ DoRelease(componentVtbl[3], c, Ptr(c, "self"), component_release(comps, c))

ComponentMethod(c, i, goRet) ==
    /\ Live(c)
    /\ DoMethod(componentVtbl[i], c, Ptr(c, "self"),
                component_method(comps, c, componentVtbl[i], goRet))

AudioQueryInterface(c, iid) ==
    /\ Live(c) /\ Budget
    /\ DoQueryInterface(audioProcessorVtbl[1], c, Ptr(c, "audioProcessor"), iid,
                        audio_queryInterface(comps, Ptr(c, "audioProcessor"), iid))

AudioAddRef(c) ==
    /\ Live(c) /\ Budget
    /\ DoAddRef(audioProcessorVtbl[2], c, Ptr(c, "audioProcessor"),
                audio_addRef(comps, Ptr(c, "audioProcessor")))

AudioRelease(c) ==
    /\ Live(c) /\ Budget
    /\ DoRelease(audioProcessorVtbl[3], c, Ptr(c, "audioProcessor"),
                 audio_release(comps, Ptr(c, "audioProcessor")))

AudioMethod(c, i, goRet) ==
    /\ Live(c)
    /\ DoMethod(audioProcessorVtbl[i], c, Ptr(c, "audioProcessor"),
                audio_method(comps, Ptr(c, "audioProcessor"),
                             audioProcessorVtbl[i], goRet))

ControllerQueryInterface(c, iid) ==
    /\ Live(c) /\ Budget
    /\ DoQueryInterface(editControllerVtbl[1], c, Ptr(c, "editController"), iid,
                        controller_queryInterface(comps, Ptr(c, "editController"), iid))

ControllerAddRef(c) ==
    /\ Live(c) /\ Budget
    /\ DoAddRef(editControllerVtbl[2], c, Ptr(c, "editController"),
                controller_addRef(comps, Ptr(c, "editController")))

ControllerRelease(c) ==
    /\ Live(c) /\ Budget
    /\ DoRelease(editControllerVtbl[3], c, Ptr(c, "editController"),
                 controller_release(comps, Ptr(c, "editController")))

ControllerMethod(c, i, goRet) ==
    /\ Live(c)
    /\ DoMethod(editControllerVtbl[i], c, Ptr(c, "editController"),
                controller_method(comps, Ptr(c, "editController"),
                                  editControllerVtbl[i], goRet))

\* Host calls that create components and move their reference count
Next ==
    \/ \E h \in GoHandles : CreateComponent(h)
    \/ \E c \in Addrs, iid \in Iids : ComponentQueryInterface(c, iid)
    \/ \E c \in Addrs : ComponentAddRef(c)
    \/ \E c \in Addrs : ComponentRelease(c)
    \/ \E c \in Addrs, iid \in Iids : AudioQueryInterface(c, iid)
    \/ \E c \in Addrs : AudioAddRef(c)
    \/ \E c \in Addrs : AudioRelease(c)
    \/ \E c \in Addrs, iid \in Iids : ControllerQueryInterface(c, iid)
    \/ \E c \in Addrs : ControllerAddRef(c)
    \/ \E c \in Addrs : ControllerRelease(c)

Spec == Init /\ [][Next]_vars

\* Host calls of the other vtable slots, on components that come and go.
\* These methods read goComponent and write nothing, so their behaviour is
\* the same at every reference count.
NextMethods ==
    \/ \E h \in GoHandles : CreateComponent(h)
    \/ \E c \in Addrs : ComponentRelease(c)
    \/ \E c \in Addrs, i \in 4 .. Len(componentVtbl), g \in GoResults :
           ComponentMethod(c, i, g)
    \/ \E c \in Addrs, i \in 4 .. Len(audioProcessorVtbl), g \in GoResults :
           AudioMethod(c, i, g)
    \/ \E c \in Addrs, i \in 4 .. Len(editControllerVtbl), g \in GoResults :
           ControllerMethod(c, i, g)

SpecMethods == Init /\ [][NextMethods]_vars

----------------------------------------------------------------------------
(* The plugin factory (bridge.c) *)

\* a PluginFactory free() has just taken: the refCount field holds K
FreedFactory == [state |-> "freed", refCount |-> 0, key |-> NoKey]

\* a PluginFactory on the heap with refCount n
LiveFactory(n) == [state |-> "live", refCount |-> n, key |-> NoKey]

\* Faulty variant: a factory is allocated on every call
GetPluginFactory_alwaysAllocates(gf, f, a) ==
    [ globalFactory |-> a, factory |-> LiveFactory(1),
      mallocs |-> 1, ret |-> Ptr(a, "self"), events |-> << >> ]

\* if (!globalFactory) { malloc; refCount = 1 }  return globalFactory
\* gf, f: globalFactory and the cell it points at; a: what malloc returns.
\* The result of malloc is not tested: with a = NULL the write of vtbl goes
\* through NULL and the call does not return.
GetPluginFactory(gf, f, a) ==
    IF gf = 0
    THEN IF a = 0
         THEN [ globalFactory |-> 0, factory |-> f, mallocs |-> 0, ret |-> NULL,
                events |-> << Signal("SIGSEGV") >> ]
         ELSE [ globalFactory |-> a, factory |-> LiveFactory(1),
                mallocs |-> 1, ret |-> Ptr(a, "self"), events |-> << >> ]
    ELSE [ globalFactory |-> gf, factory |-> f,
           mallocs |-> 0, ret |-> Ptr(gf, "self"), events |-> << >> ]

\* The refCount field of a freed factory holds K + refCount, K unknown to
\* the code.  What the code's tests have shown of K so far: key.eq holds the
\* n with K + n = 0 once a test found one, key.ne the n tested with K + n # 0.
KeyAdmits(k, n, zero) ==
    IF k.eq # {} THEN zero = (n \in k.eq)
    ELSE IF zero THEN n \notin k.ne ELSE TRUE

KeyLearn(k, n, zero) ==
    IF zero THEN [eq |-> {n}, ne |-> {}]
    ELSE IF k.eq # {} THEN k ELSE [k EXCEPT !.ne = @ \cup {n}]

\* the Steinberg_uint32 made of the int n read from factory->refCount
FactoryUint32(f, n) ==
    IF f.state = "live" THEN Uint32(n) ELSE [key |-> 1, bit31 |-> 0, low31 |-> n]

\* return ++factory->refCount
factory_addRef(f) ==
    [ mem |-> [f EXCEPT !.refCount = @ + 1],
      ret |-> FactoryUint32(f, f.refCount + 1),
      events |-> << >>,
      uaf |-> f.state # "live" ]

\* free() of a block that is already free is undefined.  What the builds of
\* the code do with it: the allocator finds the block in its list and aborts,
\* or frees it once more; the refCount field is left holding the key again
\* ("key"), the count the code stored before the call ("stored"), or, when
\* the compiler has dropped that store as dead, the count it held before
\* ("kept").
DoubleFreeOutcomes ==
    { [abort |-> ab, field |-> fl] :
          ab \in BOOLEAN, fl \in {"key", "stored", "kept"} }
    \ { [abort |-> TRUE, field |-> "key"] }

\* if (--factory->refCount == 0) { free(factory); return 0 }
\* return factory->refCount
\* zero is the outcome of the test when the field is that of a freed factory,
\* o what the free() of the freed factory then does.
factory_release(f, zero, o, this) ==
    LET n == f.refCount - 1
    IN  IF f.state = "live"
        THEN IF n = 0
             THEN [ mem |-> FreedFactory, ret |-> Uint32(0),
                    events |-> << Free(this) >>, uaf |-> FALSE ]
             ELSE [ mem |-> [f EXCEPT !.refCount = n], ret |-> Uint32(n),
                    events |-> << >>, uaf |-> FALSE ]
        ELSE IF zero
             THEN [ mem |-> [f EXCEPT !.refCount = CASE o.field = "key"    -> 0
                                                     [] o.field = "stored" -> n
                                                     [] o.field = "kept"   -> n + 1,
                                      !.key = KeyLearn(f.key, n, TRUE)],
                    ret |-> Uint32(0),
                    events |-> IF o.abort
                               THEN << Free(this), Signal("SIGABRT") >>
                               ELSE << Free(this) >>,
                    uaf |-> TRUE ]
             ELSE [ mem |-> [f EXCEPT !.refCount = n, !.key = KeyLearn(f.key, n, FALSE)],
                    ret |-> FactoryUint32(f, n),
                    events |-> << >>, uaf |-> TRUE ]

\* Faulty variant: the interface is handed out without the reference
factory_queryInterface_noAddRef(f, this, iid) ==
    IF \/ IidEq(iid, Steinberg_FUnknown_iid)
       \/ IidEq(iid, Steinberg_IPluginFactory_iid)
    THEN [ mem |-> f, obj |-> Ptr(this, "self"),
           ret |-> kResultOk, events |-> << >>, uaf |-> f.state # "live" ]
    ELSE [ mem |-> f, obj |-> NULL, ret |-> kNoInterface, events |-> << >>,
           uaf |-> FALSE ]

factory_queryInterface(f, this, iid) ==
    IF \/ IidEq(iid, Steinberg_FUnknown_iid)
       \/ IidEq(iid, Steinberg_IPluginFactory_iid)
    THEN [ mem |-> factory_addRef(f).mem, obj |-> Ptr(this, "self"),
           ret |-> kResultOk, events |-> factory_addRef(f).events,
           uaf |-> factory_addRef(f).uaf ]
    ELSE [ mem |-> f, obj |-> NULL, ret |-> kNoInterface, events |-> << >>,
           uaf |-> FALSE ]

\* GoGetFactoryInfo(info->vendor, ...); return kResultOk
factory_getFactoryInfo ==
    [ ret |-> kResultOk, events |-> << GoCall("GoGetFactoryInfo", 0) >> ]

\* return GoCountClasses()
factory_countClasses(count) ==
    [ ret |-> count, events |-> << GoCall("GoCountClasses", 0) >> ]

\* Faulty variant: the bound is tested with > instead of >=
factory_getClassInfo_offByOne(index, count) ==
    IF index > count
    THEN [ ret |-> kResultFalse, out |-> << >>,
           events |-> << GoCall("GoCountClasses", 0) >> ]
    ELSE [ ret |-> kResultOk, out |-> << index >>,
           events |-> << GoCall("GoCountClasses", 0),
                         GoCall("GoGetClassInfo", index) >> ]

\* if (index >= GoCountClasses()) return kResultFalse;
\* GoGetClassInfo(index, info->cid, ...); return kResultOk
\* count: what GoCountClasses returns; out: the class whose data Go wrote to info
factory_getClassInfo(index, count) ==
    IF index >= count
    THEN [ ret |-> kResultFalse, out |-> << >>,
           events |-> << GoCall("GoCountClasses", 0) >> ]
    ELSE [ ret |-> kResultOk, out |-> << index >>,
           events |-> << GoCall("GoCountClasses", 0),
                         GoCall("GoGetClassInfo", index) >> ]

\* Faulty variant: a NULL instance is reported as success
factory_createInstance_noNullCheck(cid, instance) ==
    [ obj |-> instance, ret |-> kResultOk,
      events |-> << GoCall("GoCreateInstance", cid) >> ]

\* instance = GoCreateInstance(cid, iid); NULL gives kNoInterface
factory_createInstance(cid, instance) ==
    IF instance = NULL
    THEN [ obj |-> NULL, ret |-> kNoInterface,
           events |-> << GoCall("GoCreateInstance", cid) >> ]
    ELSE [ obj |-> instance, ret |-> kResultOk,
           events |-> << GoCall("GoCreateInstance", cid) >> ]

\* Faulty variant: ModuleExit tears the factory down
moduleExit_freesFactory(mi, gf, f) ==
    [ moduleInitialized |-> 0, globalFactory |-> 0,
      factory |-> IF f.state = "live" THEN FreedFactory ELSE f, ret |-> 1 ]

\* if (moduleInitialized) return 1;  moduleInitialized = 1;  return 1
moduleEntry(mi, gf, f) ==
    IF mi # 0
    THEN [ moduleInitialized |-> mi, globalFactory |-> gf, factory |-> f, ret |-> 1 ]
    ELSE [ moduleInitialized |-> 1,  globalFactory |-> gf, factory |-> f, ret |-> 1 ]

\* moduleInitialized = 0;  return 1
moduleExit(mi, gf, f) ==
    [ moduleInitialized |-> 0, globalFactory |-> gf, factory |-> f, ret |-> 1 ]

----------------------------------------------------------------------------
(* SpecFactory: host calls on the factory and the module entry points.     *)
(* GetPluginFactory hands the host a reference; the host calls the factory *)
(* only while it holds one, and releases only references it holds.         *)

InitFactory == Init

HostGetPluginFactory(a) ==
    /\ ~Crashed
    /\ hostRefs < MaxFRefs
    /\ LET r == GetPluginFactory(globalFactory, factory, a)
       IN  /\ globalFactory' = r.globalFactory
           /\ factory' = r.factory
           /\ mallocs' = mallocs + r.mallocs
           /\ last' = Call("GetPluginFactory", NULL, << >>, r.ret, 0, r.events,
                           r.globalFactory, factory.refCount, r.factory.refCount)
           /\ hostRefs' = hostRefs + (IF r.events = << >> THEN 1 ELSE 0)
    /\ UNCHANGED <<compVars, moduleInitialized, uaf, threadVars, callerMem>>

FactoryQueryInterface(iid) ==
    /\ ~Crashed
    /\ hostRefs > 0 /\ hostRefs < MaxFRefs
    /\ LET r == factory_queryInterface(factory, globalFactory, iid)
       IN  /\ factory' = r.mem
           /\ uaf' = (uaf \/ r.uaf)
           /\ hostRefs' = hostRefs + (IF r.ret = kResultOk THEN 1 ELSE 0)
           /\ last' = Call("factory_queryInterface", Ptr(globalFactory, "self"), iid,
                           r.obj, r.ret, r.events, globalFactory,
                           factory.refCount, r.mem.refCount)
    /\ UNCHANGED <<compVars, globalFactory, mallocs, moduleInitialized, threadVars, callerMem>>

FactoryAddRef ==
    /\ ~Crashed
    /\ hostRefs > 0 /\ hostRefs < MaxFRefs
    /\ LET r == factory_addRef(factory)
       IN  /\ factory' = r.mem
           /\ uaf' = (uaf \/ r.uaf)
           /\ last' = CallU32(Call("factory_addRef", Ptr(globalFactory, "self"), << >>,
                                   NoPtr, 0, r.events, globalFactory,
                                   factory.refCount, r.mem.refCount),
                              r.ret)
    /\ hostRefs' = hostRefs + 1
    /\ UNCHANGED <<compVars, globalFactory, mallocs, moduleInitialized, threadVars, callerMem>>

FactoryRelease(zero, o) ==
    /\ ~Crashed
    /\ hostRefs > 0
    /\ factory.state = "freed" => factory.refCount > 0 - MaxBelow
    /\ IF factory.state = "live"
       THEN zero = (factory.refCount - 1 = 0)
       ELSE KeyAdmits(factory.key, factory.refCount - 1, zero)
    /\ LET r == factory_release(factory, zero, o, globalFactory)
       IN  /\ factory' = r.mem
           /\ uaf' = (uaf \/ r.uaf)
           /\ last' = CallU32(Call("factory_release", Ptr(globalFactory, "self"), << >>,
                                   NoPtr, 0, r.events, globalFactory,
                                   factory.refCount, r.mem.refCount),
                              r.ret)
    /\ hostRefs' = hostRefs - 1
    /\ UNCHANGED <<compVars, globalFactory, mallocs, moduleInitialized, threadVars, callerMem>>

\* the pointers GoCreateInstance may return
Instances == { NULL, Ptr(1, "self"), Ptr(2, "self") }

FactoryGetFactoryInfo ==
    /\ ~Crashed
    /\ hostRefs > 0
    /\ LET r == factory_getFactoryInfo
       IN  last' = Call("factory_getFactoryInfo", Ptr(globalFactory, "self"), << >>,
                        NoPtr, r.ret, r.events, globalFactory,
                        factory.refCount, factory.refCount)
    /\ UNCHANGED <<compVars, factoryVars, uaf, threadVars, callerMem>>

FactoryCountClasses(count) ==
    /\ ~Crashed
    /\ hostRefs > 0
    /\ LET r == factory_countClasses(count)
       IN  last' = Call("factory_countClasses", Ptr(globalFactory, "self"), << >>,
                        NoPtr, r.ret, r.events, globalFactory,
                        factory.refCount, factory.refCount)
    /\ UNCHANGED <<compVars, factoryVars, uaf, threadVars, callerMem>>

FactoryGetClassInfo(index, count) ==
    /\ ~Crashed
    /\ hostRefs > 0
    /\ LET r == factory_getClassInfo(index, count)
       IN  last' = CallWith(Call("factory_getClassInfo", Ptr(globalFactory, "self"),
                                 << >>, NoPtr, r.ret, r.events, globalFactory,
                                 factory.refCount, factory.refCount),
                            << index, count >>, r.out)
    /\ UNCHANGED <<compVars, factoryVars, uaf, threadVars, callerMem>>

FactoryCreateInstance(cid, instance) ==
    /\ ~Crashed
    /\ hostRefs > 0
    /\ LET r == factory_createInstance(cid, instance)
       IN  last' = CallWith(Call("factory_createInstance", Ptr(globalFactory, "self"),
                                 << >>, r.obj, r.ret, r.events, globalFactory,
                                 factory.refCount, factory.refCount),
                            << cid, instance >>, << >>)
    /\ UNCHANGED <<compVars, factoryVars, uaf, threadVars, callerMem>>

ModuleEntry ==
    /\ ~Crashed
    /\ LET r == moduleEntry(moduleInitialized, globalFactory, factory)
       IN  /\ moduleInitialized' = r.moduleInitialized
           /\ globalFactory' = r.globalFactory
           /\ factory' = r.factory
           /\ last' = CallWith(Call("ModuleEntry", NULL, << >>, NoPtr, r.ret, << >>, 0,
                                    factory.refCount, r.factory.refCount),
                               << moduleInitialized >>, << >>)
    /\ UNCHANGED <<compVars, mallocs, hostRefs, uaf, threadVars, callerMem>>

ModuleExit ==
    /\ ~Crashed
    /\ LET r == moduleExit(moduleInitialized, globalFactory, factory)
       IN  /\ moduleInitialized' = r.moduleInitialized
           /\ globalFactory' = r.globalFactory
           /\ factory' = r.factory
           /\ last' = CallWith(Call("ModuleExit", NULL, << >>, NoPtr, r.ret, << >>, 0,
                                    factory.refCount, r.factory.refCount),
                               << moduleInitialized >>, << >>)
    /\ UNCHANGED <<compVars, mallocs, hostRefs, uaf, threadVars, callerMem>>

\* The host reaches every factory method through factory->lpVtbl.  free()
\* stores the allocator's list link over the first word of the block, so a
\* call dispatched through the vtable pointer of a freed factory jumps
\* through that link and the process dies before any method is entered.
FactoryVtblCallFreed ==
    /\ ~Crashed
    /\ hostRefs > 0
    /\ factory.state = "freed"
    /\ uaf' = TRUE
    /\ last' = Call("lpVtbl", Ptr(globalFactory, "self"), << >>, NoPtr, 0,
                    << Signal("SIGSEGV") >>, globalFactory,
                    factory.refCount, factory.refCount)
    /\ UNCHANGED <<compVars, factoryVars, threadVars, callerMem>>

\* what malloc(sizeof(PluginFactory)) may return
MallocResults == FactoryAddrs \cup {0}

NextFactory ==
    \/ \E a \in MallocResults : HostGetPluginFactory(a)
    \/ FactoryVtblCallFreed
    \/ \E iid \in Iids : FactoryQueryInterface(iid)
    \/ FactoryAddRef
    \/ \E zero \in BOOLEAN, o \in DoubleFreeOutcomes : FactoryRelease(zero, o)
    \/ FactoryGetFactoryInfo
    \/ \E n \in ClassCounts : FactoryCountClasses(n)
    \/ \E i \in ClassIndexes, n \in ClassCounts : FactoryGetClassInfo(i, n)
    \/ \E cid \in ClassIds, p \in Instances : FactoryCreateInstance(cid, p)
    \/ ModuleEntry
    \/ ModuleExit

SpecFactory == InitFactory /\ [][NextFactory]_vars

----------------------------------------------------------------------------
(* SpecThreads: two host threads call component_addRef and                 *)
(* component_release on one component.  refCount is a plain int, so        *)
(* ++refCount and --refCount are a load and a store that other threads'    *)
(* loads and stores can come between; so can they between the store, the   *)
(* test against 0, the GoReleaseComponent callback, free() and the return. *)
(* Where the code uses the updated count again (the value addRef returns,  *)
(* the == 0 test and the value release returns) the build either keeps it  *)
(* in a register or reads the field again; both are taken.  The host       *)
(* starts a call only for a reference it holds by its own count:           *)
(* 1 + addRefs returned - releases started.                                *)

TheComponent == 1
TheHandle    == 101

InitThreads ==
    /\ comps = [a \in Addrs |-> IF a = TheComponent
                                THEN createComponent(a, TheHandle)
                                ELSE NoComponent]
    /\ hist = [a \in Addrs |-> IF a = TheComponent
                               THEN [NoHist EXCEPT !.handle = TheHandle]
                               ELSE NoHist]
    /\ InitCommon

Idle(t)    == thr[t].pc = "idle"
AllIdle    == \A t \in Threads : Idle(t)
InFlight   == { t \in Threads : ~Idle(t) }
HostHeld   == 1 + hist[TheComponent].addRef - hist[TheComponent].release
Started    == hist[TheComponent].addRef + hist[TheComponent].release
                + Cardinality({ t \in InFlight : thr[t].op = "component_addRef" })

\* component->refCount read.  free() leaves refCount and goComponent as they
\* are (the allocator writes only the first words of the block), so after
\* free a read gives the value last stored and a write stays
RefCountRead(cs, this) == cs[this].refCount

\* Faulty variant: the incremented value is not the one written back
RefCountWrite_stale(cs, this, tmp, d) == [cs EXCEPT ![this].refCount = tmp]

\* component->refCount = tmp + d, the write half of ++ (d = 1) and -- (d = -1)
RefCountWrite(cs, this, tmp, d) == [cs EXCEPT ![this].refCount = tmp + d]

\* a later use of the value just stored: the register, or the field read again
Reuse(cs, this, reg, reload) == IF reload THEN RefCountRead(cs, this) ELSE reg

\* a thread enters addRef or release and loads refCount
ThreadLoad(t, op) ==
    /\ ~Crashed
    /\ Idle(t)
    /\ Started < MaxTCalls
    /\ HostHeld >= 1
    /\ thr' = [thr EXCEPT ![t] = [pc |-> "loaded", op |-> op,
                                  tmp |-> RefCountRead(comps, TheComponent),
                                  go |-> 0]]
    /\ overlapped' = (overlapped \/ InFlight # {})
    /\ uaf' = (uaf \/ ~Live(TheComponent))
    /\ hist' = [hist EXCEPT ![TheComponent].release =
                                @ + (IF op = "component_release" THEN 1 ELSE 0)]
    /\ UNCHANGED <<comps, last, factoryVars, callerMem>>

\* the host calls through component->lpVtbl: free() stores the allocator's
\* list link over that word, so a call dispatched through a freed component
\* jumps through the link and the process dies before the method is entered
ThreadVtblCallFreed(t) ==
    /\ ~Crashed
    /\ Idle(t)
    /\ Started < MaxTCalls
    /\ HostHeld >= 1
    /\ ~Live(TheComponent)
    /\ uaf' = TRUE
    /\ last' = Call("lpVtbl", Ptr(TheComponent, "self"), << >>, NoPtr, 0,
                    << Signal("SIGSEGV") >>, TheComponent,
                    comps[TheComponent].refCount, comps[TheComponent].refCount)
    /\ UNCHANGED <<compVars, factoryVars, threadVars, callerMem>>

\* ++component->refCount: the store
ThreadAddRefStore(t) ==
    /\ ~Crashed
    /\ thr[t].pc = "loaded" /\ thr[t].op = "component_addRef"
    /\ comps' = RefCountWrite(comps, TheComponent, thr[t].tmp, 1)
    /\ uaf' = (uaf \/ ~Live(TheComponent))
    /\ thr' = [thr EXCEPT ![t].pc = "stored"]
    /\ UNCHANGED <<hist, last, factoryVars, overlapped, callerMem>>

\* return ++component->refCount: the value returned, as Steinberg_uint32
ThreadAddRefReturn(t, reload) ==
    /\ ~Crashed
    /\ thr[t].pc = "stored" /\ thr[t].op = "component_addRef"
    /\ uaf' = (uaf \/ (reload /\ ~Live(TheComponent)))
    /\ hist' = [hist EXCEPT ![TheComponent].addRef = @ + 1]
    /\ thr' = [thr EXCEPT ![t] = NoThread]
    /\ last' = CallU32(Call("component_addRef", Ptr(TheComponent, "self"), << >>,
                            NoPtr, 0, << >>, TheComponent, thr[t].tmp,
                            comps[TheComponent].refCount),
                       Uint32(Reuse(comps, TheComponent, thr[t].tmp + 1, reload)))
    /\ UNCHANGED <<comps, factoryVars, overlapped, callerMem>>

\* --component->refCount: the store
ThreadReleaseStore(t) ==
    /\ ~Crashed
    /\ thr[t].pc = "loaded" /\ thr[t].op = "component_release"
    /\ comps' = RefCountWrite(comps, TheComponent, thr[t].tmp, 0 - 1)
    /\ uaf' = (uaf \/ ~Live(TheComponent))
    /\ thr' = [thr EXCEPT ![t].pc = "stored"]
    /\ UNCHANGED <<hist, last, factoryVars, overlapped, callerMem>>

\* if (--component->refCount == 0)
ThreadReleaseTest(t, reload) ==
    /\ ~Crashed
    /\ thr[t].pc = "stored" /\ thr[t].op = "component_release"
    /\ uaf' = (uaf \/ (reload /\ ~Live(TheComponent)))
    /\ thr' = [thr EXCEPT ![t].pc =
                  IF Reuse(comps, TheComponent, thr[t].tmp - 1, reload) = 0
                  THEN "zero" ELSE "nonzero"]
    /\ UNCHANGED <<compVars, last, factoryVars, overlapped, callerMem>>

\* GoReleaseComponent(component->goComponent): the thread is in the callback
\* until it goes on to free()
ThreadReleaseCallback(t) ==
    /\ ~Crashed
    /\ thr[t].pc = "zero"
    /\ uaf' = (uaf \/ ~Live(TheComponent))
    /\ thr' = [thr EXCEPT ![t].pc = "callback",
                          ![t].go = comps[TheComponent].goComponent]
    /\ hist' = [hist EXCEPT ![TheComponent].goRelease = @ + 1]
    /\ UNCHANGED <<comps, last, factoryVars, overlapped, callerMem>>

\* free(component); return 0.  The allocator keeps one list of free blocks
\* per thread and looks for a block handed to free() in the list of the
\* calling thread only: a thread that frees the block a second time is caught
\* and the process aborts; the free() of a block another thread has freed
\* goes through and the call returns 0.
ThreadReleaseFree(t) ==
    /\ ~Crashed
    /\ thr[t].pc = "callback"
    /\ hist' = [hist EXCEPT ![TheComponent].free = @ + 1,
                            ![TheComponent].freedBy = @ \cup {t}]
    /\ thr' = [thr EXCEPT ![t] = NoThread]
    /\ comps' = [comps EXCEPT ![TheComponent].state = "freed"]
    /\ uaf' = (uaf \/ ~Live(TheComponent))
    /\ last' = Call("component_release", Ptr(TheComponent, "self"), << >>,
                    NoPtr, 0,
                    IF t \in hist[TheComponent].freedBy
                    THEN << GoCall("GoReleaseComponent", thr[t].go),
                            Free(TheComponent), Signal("SIGABRT") >>
                    ELSE << GoCall("GoReleaseComponent", thr[t].go),
                            Free(TheComponent) >>,
                    TheComponent, thr[t].tmp, comps[TheComponent].refCount)
    /\ UNCHANGED <<factoryVars, overlapped, callerMem>>

\* return component->refCount, as Steinberg_uint32
ThreadReleaseReturn(t, reload) ==
    /\ ~Crashed
    /\ thr[t].pc = "nonzero"
    /\ uaf' = (uaf \/ (reload /\ ~Live(TheComponent)))
    /\ thr' = [thr EXCEPT ![t] = NoThread]
    /\ last' = CallU32(Call("component_release", Ptr(TheComponent, "self"), << >>,
                            NoPtr, 0, << >>, TheComponent, thr[t].tmp,
                            comps[TheComponent].refCount),
                       Uint32(Reuse(comps, TheComponent, thr[t].tmp - 1, reload)))
    /\ UNCHANGED <<compVars, factoryVars, overlapped, callerMem>>

NextThreads ==
    \/ \E t \in Threads : ThreadLoad(t, "component_addRef")
    \/ \E t \in Threads : ThreadLoad(t, "component_release")
    \/ \E t \in Threads : ThreadVtblCallFreed(t)
    \/ \E t \in Threads : ThreadAddRefStore(t)
    \/ \E t \in Threads, reload \in BOOLEAN : ThreadAddRefReturn(t, reload)
    \/ \E t \in Threads : ThreadReleaseStore(t)
    \/ \E t \in Threads, reload \in BOOLEAN : ThreadReleaseTest(t, reload)
    \/ \E t \in Threads : ThreadReleaseCallback(t)
    \/ \E t \in Threads : ThreadReleaseFree(t)
    \/ \E t \in Threads, reload \in BOOLEAN : ThreadReleaseReturn(t, reload)

SpecThreads == InitThreads /\ [][NextThreads]_vars


----------------------------------------------------------------------------
(* Parameter-queue and event-list helpers (bridge.c:142-279).  A handle is  *)
(* a void* the host passed in: NULL, or the address of a host object whose  *)
(* first word is lpVtbl, itself NULL or a table whose entries are function  *)
(* pointers, some of which may be NULL.  What the host method does when it  *)
(* is called (the value it returns, what it writes through the pointers it  *)
(* is given) is an input of the helper.                                     *)

ParameterChangesMethods == { "getParameterCount", "getParameterData" }
ParamValueQueueMethods  == { "getParameterId", "getPointCount", "getPoint" }
EventListMethods        == { "getEventCount", "getEvent" }

NullHandle == [addr |-> 0, lpVtbl |-> FALSE, entries |-> {}]
\* the handles of one host object at address a whose vtable may hold methods
Handles(a, methods) ==
    { NullHandle, [addr |-> a, lpVtbl |-> FALSE, entries |-> {}] }
        \cup { [addr |-> a, lpVtbl |-> TRUE, entries |-> s] : s \in SUBSET methods }

ParameterChangesHandles == Handles(21, ParameterChangesMethods)
ParamValueQueueHandles  == Handles(22, ParamValueQueueMethods)
EventListHandles        == Handles(23, EventListMethods)

HostCounts    == { 0 - 1, 0, 3 }     \* int32_t values a host count method returns
HostParamIds  == { 0, 7 }            \* Steinberg_Vst_ParamID values
HostQueues    == { 0, 22 }           \* IParamValueQueue* values getParameterData returns
HostResults   == { 0, 1 }            \* Steinberg_tresult values of getPoint / getEvent
HostIndexes   == { 0, 1 }            \* int32_t index arguments
ParamValues   == { 1, 2 }            \* contents of vstValue after the host call
HostOffsets   == { 5 }               \* sample offsets the host writes
HostEvents    == { 8 }               \* events the host writes

\* What the host's getPoint does: its result, whether it writes
\* *sampleOffset, and the content of vstValue when it returns.  A host that
\* returns kResultOk has written both.
PointReplies ==
    { r \in [ result : HostResults, writes : BOOLEAN,
              sampleOffset : HostOffsets, value : ParamValues ] :
        r.result = kResultOk => r.writes }
\* What the host's getEvent does: its result and the event it writes on success
EventReplies == [ result : HostResults, event : HostEvents ]

HostCall(name, this, args) == [kind |-> "host", name |-> name, this |-> this, args |-> args]

\* int32_t getParameterChangeCount(void* inputParameterChanges)
getParameterChangeCount(changes, count) ==
    IF changes.addr = 0 THEN [ ret |-> 0, events |-> << >> ]
    ELSE IF ~changes.lpVtbl \/ "getParameterCount" \notin changes.entries
    THEN [ ret |-> 0, events |-> << >> ]
    ELSE [ ret |-> count,
           events |-> << HostCall("getParameterCount", changes.addr, << >>) >> ]

\* void* getParameterData(void* inputParameterChanges, int32_t index)
getParameterData(changes, index, queue) ==
    IF changes.addr = 0 THEN [ ret |-> 0, events |-> << >> ]
    ELSE IF ~changes.lpVtbl \/ "getParameterData" \notin changes.entries
    THEN [ ret |-> 0, events |-> << >> ]
    ELSE [ ret |-> queue,
           events |-> << HostCall("getParameterData", changes.addr, << index >>) >> ]

\* Faulty variant: the getParameterId entry of the vtable is not tested
getParameterId_noEntryCheck(queue, paramId) ==
    IF queue.addr = 0 THEN [ ret |-> 0, events |-> << >> ]
    ELSE IF ~queue.lpVtbl
    THEN [ ret |-> 0, events |-> << >> ]
    ELSE [ ret |-> paramId,
           events |-> << HostCall("getParameterId", queue.addr, << >>) >> ]

\* uint32_t getParameterId(void* paramQueue)
getParameterId(queue, paramId) ==
    IF queue.addr = 0 THEN [ ret |-> 0, events |-> << >> ]
    ELSE IF ~queue.lpVtbl \/ "getParameterId" \notin queue.entries
    THEN [ ret |-> 0, events |-> << >> ]
    ELSE [ ret |-> paramId,
           events |-> << HostCall("getParameterId", queue.addr, << >>) >> ]

\* int32_t getPointCount(void* paramQueue)
getPointCount(queue, count) ==
    IF queue.addr = 0 THEN [ ret |-> 0, events |-> << >> ]
    ELSE IF ~queue.lpVtbl \/ "getPointCount" \notin queue.entries
    THEN [ ret |-> 0, events |-> << >> ]
    ELSE [ ret |-> count,
           events |-> << HostCall("getPointCount", queue.addr, << >>) >> ]

\* The host's getPoint(queue, index, sampleOffset, &vstValue) acting on the
\* caller's memory: it writes through sampleOffset, vstValue is a local
HostGetPoint(m, sampleOffset, reply) ==
    IF reply.writes THEN [m EXCEPT ![sampleOffset] = reply.sampleOffset] ELSE m

\* Faulty variant: vstValue is copied to *value whatever the result
getPoint_alwaysCopies(queue, index, sampleOffset, value, reply, m) ==
    IF queue.addr = 0 THEN [ ret |-> kResultFalse, events |-> << >>, mem |-> m ]
    ELSE IF sampleOffset = 0 \/ value = 0
    THEN [ ret |-> kResultFalse, events |-> << >>, mem |-> m ]
    ELSE IF ~queue.lpVtbl \/ "getPoint" \notin queue.entries
    THEN [ ret |-> kResultFalse, events |-> << >>, mem |-> m ]
    ELSE [ ret |-> reply.result,
           events |-> << HostCall("getPoint", queue.addr, << index, sampleOffset >>) >>,
           mem |-> [HostGetPoint(m, sampleOffset, reply) EXCEPT ![value] = reply.value] ]

\* int32_t getPoint(void* paramQueue, int32_t index, int32_t* sampleOffset, double* value)
getPoint(queue, index, sampleOffset, value, reply, m) ==
    IF queue.addr = 0 THEN [ ret |-> kResultFalse, events |-> << >>, mem |-> m ]
    ELSE IF sampleOffset = 0 \/ value = 0
    THEN [ ret |-> kResultFalse, events |-> << >>, mem |-> m ]
    ELSE IF ~queue.lpVtbl \/ "getPoint" \notin queue.entries
    THEN [ ret |-> kResultFalse, events |-> << >>, mem |-> m ]
    ELSE [ ret |-> reply.result,
           events |-> << HostCall("getPoint", queue.addr, << index, sampleOffset >>) >>,
           mem |-> IF reply.result = 0
                   THEN [HostGetPoint(m, sampleOffset, reply) EXCEPT ![value] = reply.value]
                   ELSE HostGetPoint(m, sampleOffset, reply) ]

\* int32_t getEventCount(void* eventList)
getEventCount(list, count) ==
    IF list.addr = 0 THEN [ ret |-> 0, events |-> << >> ]
    ELSE IF ~list.lpVtbl \/ "getEventCount" \notin list.entries
    THEN [ ret |-> 0, events |-> << >> ]
    ELSE [ ret |-> count,
           events |-> << HostCall("getEventCount", list.addr, << >>) >> ]

\* The host's getEvent(list, index, event): the event is written on success
HostGetEvent(m, event, reply) ==
    IF reply.result = kResultOk THEN [m EXCEPT ![event] = reply.event] ELSE m

\* Faulty variant: the getEvent entry of the vtable is not tested
getEvent_noEntryCheck(list, index, event, reply, m) ==
    IF list.addr = 0 \/ event = 0
    THEN [ ret |-> kResultFalse, events |-> << >>, mem |-> m ]
    ELSE IF ~list.lpVtbl
    THEN [ ret |-> kResultFalse, events |-> << >>, mem |-> m ]
    ELSE [ ret |-> reply.result,
           events |-> << HostCall("getEvent", list.addr, << index, event >>) >>,
           mem |-> HostGetEvent(m, event, reply) ]

\* int32_t getEvent(void* eventList, int32_t index, struct Steinberg_Vst_Event* event)
getEvent(list, index, event, reply, m) ==
    IF list.addr = 0 \/ event = 0
    THEN [ ret |-> kResultFalse, events |-> << >>, mem |-> m ]
    ELSE IF ~list.lpVtbl \/ "getEvent" \notin list.entries
    THEN [ ret |-> kResultFalse, events |-> << >>, mem |-> m ]
    ELSE [ ret |-> reply.result,
           events |-> << HostCall("getEvent", list.addr, << index, event >>) >>,
           mem |-> HostGetEvent(m, event, reply) ]

\* a helper call as the last call: no this pointer, no interface id
HelperCall(op, ret, events, args) ==
    CallWith(Call(op, NULL, << >>, NoPtr, ret, events, 0, 0, 0), args, << >>)

GetParameterChangeCount(changes, count) ==
    /\ LET r == getParameterChangeCount(changes, count)
       IN  last' = HelperCall("getParameterChangeCount", r.ret, r.events,
                              [handle |-> changes, host |-> count])
    /\ UNCHANGED <<compVars, factoryVars, uaf, threadVars, callerMem>>

GetParameterData(changes, index, queue) ==
    /\ LET r == getParameterData(changes, index, queue)
       IN  last' = HelperCall("getParameterData", r.ret, r.events,
                              [handle |-> changes, index |-> index, host |-> queue])
    /\ UNCHANGED <<compVars, factoryVars, uaf, threadVars, callerMem>>

GetParameterId(queue, paramId) ==
    /\ LET r == getParameterId(queue, paramId)
       IN  last' = HelperCall("getParameterId", r.ret, r.events,
                              [handle |-> queue, host |-> paramId])
    /\ UNCHANGED <<compVars, factoryVars, uaf, threadVars, callerMem>>

GetPointCount(queue, count) ==
    /\ LET r == getPointCount(queue, count)
       IN  last' = HelperCall("getPointCount", r.ret, r.events,
                              [handle |-> queue, host |-> count])
    /\ UNCHANGED <<compVars, factoryVars, uaf, threadVars, callerMem>>

GetPoint(queue, index, sampleOffset, value, reply) ==
    /\ LET r == getPoint(queue, index, sampleOffset, value, reply, callerMem)
       IN  /\ callerMem' = r.mem
           /\ last' = HelperCall("getPoint", r.ret, r.events,
                                 [handle |-> queue, index |-> index,
                                  sampleOffset |-> sampleOffset, value |-> value,
                                  host |-> reply])
    /\ UNCHANGED <<compVars, factoryVars, uaf, threadVars>>

GetEventCount(list, count) ==
    /\ LET r == getEventCount(list, count)
       IN  last' = HelperCall("getEventCount", r.ret, r.events,
                              [handle |-> list, host |-> count])
    /\ UNCHANGED <<compVars, factoryVars, uaf, threadVars, callerMem>>

GetEvent(list, index, event, reply) ==
    /\ LET r == getEvent(list, index, event, reply, callerMem)
       IN  /\ callerMem' = r.mem
           /\ last' = HelperCall("getEvent", r.ret, r.events,
                                 [handle |-> list, index |-> index, event |-> event,
                                  host |-> reply])
    /\ UNCHANGED <<compVars, factoryVars, uaf, threadVars>>

NextHelpers ==
    \/ \E h \in ParameterChangesHandles, n \in HostCounts : GetParameterChangeCount(h, n)
    \/ \E h \in ParameterChangesHandles, i \in HostIndexes, q \in HostQueues :
           GetParameterData(h, i, q)
    \/ \E h \in ParamValueQueueHandles, id \in HostParamIds : GetParameterId(h, id)
    \/ \E h \in ParamValueQueueHandles, n \in HostCounts : GetPointCount(h, n)
    \/ \E h \in ParamValueQueueHandles, i \in HostIndexes,
          so \in {0, SampleOffsetCell}, v \in {0, ValueCell}, r \in PointReplies :
           GetPoint(h, i, so, v, r)
    \/ \E h \in EventListHandles, n \in HostCounts : GetEventCount(h, n)
    \/ \E h \in EventListHandles, i \in HostIndexes, e \in {0, EventCell},
          r \in EventReplies :
           GetEvent(h, i, e, r)

SpecHelpers == Init /\ [][NextHelpers]_vars
----------------------------------------------------------------------------
(* Properties of the component (Spec, SpecMethods) *)

QueryInterfaceOps == { componentVtbl[1], audioProcessorVtbl[1], editControllerVtbl[1] }
AddRefOps         == { componentVtbl[2], audioProcessorVtbl[2], editControllerVtbl[2] }
ReleaseOps        == { componentVtbl[3], audioProcessorVtbl[3], editControllerVtbl[3] }
FacadeFields      == { "self", "audioProcessor", "editController" }

MethodOps ==
    { componentVtbl[i]      : i \in 4 .. Len(componentVtbl) } \cup
    { audioProcessorVtbl[i] : i \in 4 .. Len(audioProcessorVtbl) } \cup
    { editControllerVtbl[i] : i \in 4 .. Len(editControllerVtbl) }

\* C1: component_queryInterface on a live component stores the component
\* pointer for the FUnknown, IPluginBase and IComponent ids, the address of
\* that component's audioProcessor facade for the IAudioProcessor id and of
\* its editController facade for the IEditController id; in each case it
\* returns kResultOk and the component's refCount has gone up by exactly 1.
C1_QueryInterfaceFacade ==
    (last.op = "component_queryInterface" /\ last.iid \in ComponentIids) =>
        /\ last.this = Ptr(last.owner, "self")
        /\ last.iid \in { Steinberg_FUnknown_iid, Steinberg_IPluginBase_iid,
                          Steinberg_Vst_IComponent_iid }
              => last.obj = Ptr(last.owner, "self")
        /\ last.iid = Steinberg_Vst_IAudioProcessor_iid
              => last.obj = Ptr(last.owner, "audioProcessor")
        /\ last.iid = Steinberg_Vst_IEditController_iid
              => last.obj = Ptr(last.owner, "editController")
        /\ last.ret = 0
        /\ comps[last.owner].state = "live"
        /\ comps[last.owner].refCount = last.pre + 1

C1_Witness ==
    /\ last.op = "component_queryInterface"
    /\ last.iid = Steinberg_Vst_IAudioProcessor_iid
    /\ last.owner = 2
    /\ last.obj = Ptr(2, "audioProcessor")
    /\ last.pre = 2
    /\ comps[2].refCount = 3

\* C2: for an interface id that is none of the five the component knows,
\* queryInterface through any of the three facades sets *obj to NULL,
\* returns kNoInterface (-1), leaves refCount as it was and calls no Go
\* callback.
C2_UnknownInterface ==
    (last.op \in QueryInterfaceOps /\ last.iid \notin ComponentIids) =>
        /\ last.obj = NULL
        /\ last.ret = 0 - 1
        /\ comps[last.owner].state = "live"
        /\ comps[last.owner].refCount = last.pre
        /\ last.events = << >>

C2_Witness ==
    /\ last.op = "audio_queryInterface"
    /\ last.iid \in OtherIids
    /\ last.iid # Steinberg_IPluginFactory_iid
    /\ last.obj = NULL
    /\ last.ret = 0 - 1
    /\ last.pre = 2
    /\ comps[last.owner].refCount = 2

\* C3: the three facades share one reference count: addRef or release
\* through the IComponent pointer, the IAudioProcessor facade or the
\* IEditController facade updates the refCount of the owning component,
\* and returns the count after the update.
C3_SharedRefCount ==
    /\ last.op \in AddRefOps =>
          /\ last.this.base = last.owner /\ last.this.field \in FacadeFields
          /\ comps[last.owner].state = "live"
          /\ comps[last.owner].refCount = last.pre + 1
          /\ last.ret = last.pre + 1
    /\ last.op \in ReleaseOps =>
          /\ last.this.base = last.owner /\ last.this.field \in FacadeFields
          /\ last.ret = last.pre - 1
          /\ last.post = last.pre - 1
          /\ comps[last.owner].state = "live"
                => comps[last.owner].refCount = last.pre - 1

\* addRef through one facade, seen by release through another
C3_Witness ==
    /\ last.op = "controller_release"
    /\ last.ret = 2
    /\ hist[last.owner].addRef = 2 /\ hist[last.owner].qi = 0
    /\ hist[last.owner].release = 1
    /\ comps[last.owner].refCount = 2

\* C4: while a component has not been freed, its refCount is
\* 1 + successful queryInterface calls + addRef calls - release calls,
\* counted over the three facades, and is at least 1.
C4_RefCountAccounting ==
    \A c \in Addrs :
        comps[c].state = "live" =>
            /\ comps[c].refCount =
                   1 + hist[c].qi + hist[c].addRef - hist[c].release
            /\ comps[c].refCount >= 1

C4_Witness ==
    \E c \in Addrs :
        /\ comps[c].state = "live"
        /\ hist[c].qi = 1 /\ hist[c].addRef = 1 /\ hist[c].release = 1
        /\ comps[c].refCount = 2

\* C5: a component is freed, and GoReleaseComponent called with its Go
\* handle, exactly once and exactly at the release (through any facade)
\* that takes refCount from 1 to 0; that call returns 0 and calls
\* GoReleaseComponent before free.  A release that leaves refCount above 0
\* frees nothing and calls nothing.
C5_FreeOnZero ==
    /\ \A c \in Addrs :
          /\ comps[c].state = "live"  => hist[c].free = 0 /\ hist[c].goRelease = 0
          /\ comps[c].state = "freed" => hist[c].free = 1 /\ hist[c].goRelease = 1
    /\ last.op \in ReleaseOps =>
          IF last.pre = 1
          THEN /\ last.ret = 0
               /\ last.events = << GoCall("GoReleaseComponent", hist[last.owner].handle),
                                   Free(last.owner) >>
               /\ comps[last.owner].state = "freed"
          ELSE /\ last.events = << >>
               /\ last.ret > 0
               /\ comps[last.owner].state = "live"

\* freed through the audio facade after the count had been above 1
C5_Witness ==
    /\ last.op = "audio_release"
    /\ last.pre = 1 /\ last.ret = 0
    /\ hist[last.owner].release = 2
    /\ comps[last.owner].state = "freed"
    /\ hist[last.owner].goRelease = 1 /\ hist[last.owner].free = 1

\* C6: queryInterface through the audioProcessor or the editController
\* facade gives, for every interface id, the *obj, the result code and the
\* refCount change that component_queryInterface on the owning component
\* gives from the same state; FUnknown through any facade gives the
\* component pointer.
C6_StepAsDirect ==
    last'.op \in { "audio_queryInterface", "controller_queryInterface" } =>
        LET d == component_queryInterface(comps, last'.owner, last'.iid)
        IN  /\ last'.this.base = last'.owner
            /\ last'.obj = d.obj
            /\ last'.ret = d.ret
            /\ comps' = d.mem
            /\ last'.events = d.events
            /\ last'.iid = Steinberg_FUnknown_iid
                  => last'.obj = Ptr(last'.owner, "self")

C6_SharedIdentity == [][C6_StepAsDirect]_vars

C6_Witness ==
    /\ last.op = "controller_queryInterface"
    /\ last.iid = Steinberg_FUnknown_iid
    /\ last.this = Ptr(1, "editController")
    /\ last.obj = Ptr(1, "self")
    /\ last.ret = 0
    /\ comps[1].refCount = last.pre + 1

\* The Go callback declared for each vtable method (component.h)
GoCallbackOf(op) ==
    CASE op = "component_initialize"   -> "GoComponentInitialize"
      [] op = "component_terminate"    -> "GoComponentTerminate"
      [] op = "component_getControllerClassId" -> "GoComponentGetControllerClassId"
      [] op = "component_setIoMode"    -> "GoComponentSetIoMode"
      [] op = "component_getBusCount"  -> "GoComponentGetBusCount"
      [] op = "component_getBusInfo"   -> "GoComponentGetBusInfo"
      [] op = "component_activateBus"  -> "GoComponentActivateBus"
      [] op = "component_setActive"    -> "GoComponentSetActive"
      [] op = "component_setState"     -> "GoComponentSetState"
      [] op = "component_getState"     -> "GoComponentGetState"
      [] op = "audio_setBusArrangements"   -> "GoAudioSetBusArrangements"
      [] op = "audio_getBusArrangement"    -> "GoAudioGetBusArrangement"
      [] op = "audio_canProcessSampleSize" -> "GoAudioCanProcessSampleSize"
      [] op = "audio_getLatencySamples"    -> "GoAudioGetLatencySamples"
      [] op = "audio_setupProcessing"      -> "GoAudioSetupProcessing"
      [] op = "audio_setProcessing"        -> "GoAudioSetProcessing"
      [] op = "audio_process"              -> "GoAudioProcess"
      [] op = "audio_getTailSamples"       -> "GoAudioGetTailSamples"
      [] op = "controller_setComponentState" -> "GoEditControllerSetComponentState"
      [] op = "controller_setState" -> "GoEditControllerSetState"
      [] op = "controller_getState" -> "GoEditControllerGetState"
      [] op = "controller_getParameterCount" -> "GoEditControllerGetParameterCount"
      [] op = "controller_getParameterInfo"  -> "GoEditControllerGetParameterInfo"
      [] op = "controller_getParamStringByValue" -> "GoEditControllerGetParamStringByValue"
      [] op = "controller_getParamValueByString" -> "GoEditControllerGetParamValueByString"
      [] op = "controller_normalizedParamToPlain" -> "GoEditControllerNormalizedParamToPlain"
      [] op = "controller_plainParamToNormalized" -> "GoEditControllerPlainParamToNormalized"
      [] op = "controller_getParamNormalized" -> "GoEditControllerGetParamNormalized"
      [] op = "controller_setParamNormalized" -> "GoEditControllerSetParamNormalized"
      [] op = "controller_setComponentHandler" -> "GoEditControllerSetComponentHandler"
      [] op = "controller_createView" -> "GoEditControllerCreateView"
      [] OTHER -> "none"

Delegated(op) ==
    /\ Len(last.events) = 1
    /\ last.events[1].kind = "go"
    /\ last.events[1].arg = hist[last.owner].handle
    /\ last.events[1].name = GoCallbackOf(op)

\* C7: every vtable method other than queryInterface, addRef and release
\* calls its Go callback with the owning component's Go handle.
\* (component_setState and component_getState return kResultOk and call
\* nothing; so do, by design, component_getRoutingInfo, controller_initialize
\* and controller_terminate.)
C7_EveryMethodDelegates ==
    last.op \in MethodOps => Delegated(last.op)

----------------------------------------------------------------------------
(* Properties of the factory (SpecFactory) *)

\* C9: GetPluginFactory is a lazily created singleton: the first call
\* allocates the factory with refCount 1; every later call returns the
\* same pointer, allocates nothing and leaves refCount as it is.
C9_GetStep ==
    /\ (last'.op = "GetPluginFactory" /\ ~Crashed') =>
          IF globalFactory = 0
          THEN /\ mallocs' = mallocs + 1
               /\ globalFactory' # 0
               /\ factory' = LiveFactory(1)
               /\ last'.obj = Ptr(globalFactory', "self")
          ELSE /\ mallocs' = mallocs
               /\ globalFactory' = globalFactory
               /\ factory' = factory
               /\ last'.obj = Ptr(globalFactory, "self")
    /\ globalFactory # 0 => globalFactory' = globalFactory /\ mallocs' = 1

C9_LazySingleton == [][C9_GetStep]_vars

\* a later call, made while the count stands at 2
C9_Witness ==
    /\ last.op = "GetPluginFactory"
    /\ last.pre = 2 /\ factory.refCount = 2 /\ factory.state = "live"
    /\ mallocs = 1
    /\ last.obj = Ptr(globalFactory, "self")

\* C10: when the host releases only references it was given, the pointer
\* GetPluginFactory returns refers to a factory that has not been freed.
C10_ReturnedFactoryIsLive ==
    last.op = "GetPluginFactory" =>
        /\ last.obj = Ptr(globalFactory, "self")
        /\ factory.state = "live"

----------------------------------------------------------------------------
(* Properties of the reference count under two threads (SpecThreads) *)

Expected == 1 + hist[TheComponent].addRef - hist[TheComponent].release

\* C8: addRef and release update refCount in separate read and write
\* steps.  While host calls have never overlapped the count is exact: with
\* no call in progress it is 1 + addRefs - releases, the component is freed
\* exactly when that is 0 and no freed memory has been touched.  (The state
\* in which overlapping calls have lost an update is C8_LostUpdate.)
C8_ExactWithoutOverlap ==
    (AllIdle /\ ~overlapped) =>
        /\ ~uaf
        /\ Expected >= 0
        /\ Expected > 0 => /\ comps[TheComponent].state = "live"
                           /\ comps[TheComponent].refCount = Expected
        /\ Expected = 0 => /\ comps[TheComponent].state = "freed"
                           /\ hist[TheComponent].free = 1

\* two threads' calls have overlapped and an update is lost: no call is in
\* progress, the component is live, and its count is not the count that any
\* serial order of the same calls gives
C8_LostUpdate ==
    /\ AllIdle /\ overlapped
    /\ comps[TheComponent].state = "live"
    /\ hist[TheComponent].addRef + hist[TheComponent].release >= 2
    /\ comps[TheComponent].refCount # Expected

----------------------------------------------------------------------------
(* Properties of the factory methods and module entry points (SpecFactory) *)

\* C11: factory_queryInterface stores the factory pointer itself in *obj,
\* returns kResultOk (0) and raises the factory refCount by exactly 1 when
\* the id is FUnknown or IPluginFactory; for every other id it sets *obj to
\* NULL, returns kNoInterface (-1) and leaves refCount unchanged.  (The
\* function does the same when it is called on a freed factory: the field
\* then holds K + refCount before and K + refCount + 1 after.)
C11_FactoryQueryInterface ==
    last.op = "factory_queryInterface" =>
        IF last.iid \in { Steinberg_FUnknown_iid, Steinberg_IPluginFactory_iid }
        THEN /\ last.obj = Ptr(globalFactory, "self")
             /\ last.obj = last.this
             /\ last.ret = 0
             /\ factory.refCount = last.pre + 1
             /\ last.post = last.pre + 1
        ELSE /\ last.obj = NULL
             /\ last.ret = 0 - 1
             /\ factory.refCount = last.pre

\* IPluginFactory is asked of a factory whose count stands at 2
C11_Witness ==
    /\ last.op = "factory_queryInterface"
    /\ last.iid = Steinberg_IPluginFactory_iid
    /\ last.obj = Ptr(globalFactory, "self")
    /\ last.ret = 0
    /\ last.pre = 2
    /\ factory = LiveFactory(3)

\* C12: ModuleEntry and ModuleExit always return 1; ModuleEntry leaves the
\* module marked initialized (a second call changes nothing), ModuleExit
\* leaves it marked not initialized; neither frees the factory, changes its
\* refCount or resets the global factory pointer.
C12_ModuleStep ==
    /\ last'.op = "ModuleEntry" =>
          /\ last'.ret = 1
          /\ moduleInitialized' = 1
          /\ moduleInitialized = 1 =>
                UNCHANGED <<comps, hist, globalFactory, factory, mallocs,
                            moduleInitialized, hostRefs, uaf>>
    /\ last'.op = "ModuleExit" =>
          /\ last'.ret = 1
          /\ moduleInitialized' = 0
    /\ last'.op \in { "ModuleEntry", "ModuleExit" } =>
          /\ factory' = factory
          /\ globalFactory' = globalFactory
          /\ mallocs' = mallocs
          /\ last'.events = << >>

C12_ModuleEntryExit == [][C12_ModuleStep]_vars

\* ModuleExit with a live factory held twice: the factory is still there
C12_Witness ==
    /\ last.op = "ModuleExit"
    /\ last.args = << 1 >>
    /\ moduleInitialized = 0
    /\ globalFactory # 0
    /\ factory = LiveFactory(2)

\* C13: factory_getClassInfo with index >= GoCountClasses() returns
\* kResultFalse (1), does not call GoGetClassInfo and writes nothing to
\* info; with 0 <= index < GoCountClasses() it calls GoGetClassInfo exactly
\* once, with that index, and returns kResultOk (0).
\* (last.args is <<index, value of GoCountClasses()>>.)
C13_GetClassInfoBound ==
    last.op = "factory_getClassInfo" =>
        /\ last.args[1] >= last.args[2] =>
              /\ last.ret = 1
              /\ \A i \in 1 .. Len(last.events) :
                     last.events[i].name # "GoGetClassInfo"
              /\ last.out = << >>
        /\ (0 <= last.args[1] /\ last.args[1] < last.args[2]) =>
              /\ last.ret = 0
              /\ Cardinality({ i \in 1 .. Len(last.events) :
                                 last.events[i].name = "GoGetClassInfo" }) = 1
              /\ \A i \in 1 .. Len(last.events) :
                     last.events[i].name = "GoGetClassInfo"
                        => last.events[i].arg = last.args[1]

\* index equal to the class count: refused
C13_Witness ==
    /\ last.op = "factory_getClassInfo"
    /\ last.args = << 2, 2 >>
    /\ last.ret = 1
    /\ last.events = << GoCall("GoCountClasses", 0) >>

\* C14: factory_getClassInfo calls GoGetClassInfo only with an index in
\* 0 .. GoCountClasses()-1; for every other index, negative ones included,
\* it returns kResultFalse (1) and does not call GoGetClassInfo.
C14_GetClassInfoInRange ==
    last.op = "factory_getClassInfo" =>
        /\ \A i \in 1 .. Len(last.events) :
               last.events[i].name = "GoGetClassInfo" =>
                  (0 <= last.events[i].arg /\ last.events[i].arg < last.args[2])
        /\ ~(0 <= last.args[1] /\ last.args[1] < last.args[2]) =>
              /\ last.ret = 1
              /\ \A i \in 1 .. Len(last.events) :
                     last.events[i].name # "GoGetClassInfo"

\* C15: factory_createInstance calls GoCreateInstance exactly once; a NULL
\* result gives *obj = NULL and kNoInterface (-1), any other result is
\* stored in *obj and gives kResultOk (0); the factory's refCount is
\* unchanged either way.  (last.args is <<cid, result of GoCreateInstance>>.)
C15_CreateInstanceStep ==
    last'.op = "factory_createInstance" =>
        /\ last'.events = << GoCall("GoCreateInstance", last'.args[1]) >>
        /\ IF last'.args[2] = NULL
           THEN last'.obj = NULL /\ last'.ret = 0 - 1
           ELSE last'.obj = last'.args[2] /\ last'.ret = 0
        /\ factory' = factory

C15_CreateInstance == [][C15_CreateInstanceStep]_vars

C15_Witness ==
    /\ last.op = "factory_createInstance"
    /\ last.args = << 12, NULL >>
    /\ last.obj = NULL /\ last.ret = 0 - 1
    /\ factory = LiveFactory(2)

----------------------------------------------------------------------------
(* Properties of the parameter-queue and event-list helpers (SpecHelpers) *)

\* the handle, its vtable and the vtable entry of the method are all non-NULL
Present(h, method) == h.addr # 0 /\ h.lpVtbl /\ method \in h.entries

\* C16: getPoint returns kResultFalse (1) without calling the host queue
\* when paramQueue, sampleOffset or value is NULL or when the queue's vtable
\* or its getPoint entry is NULL; otherwise it calls the host's getPoint
\* exactly once and returns the host's result; *value receives the host's
\* value only when that result is kResultOk (0) and is unchanged otherwise.
C16_GetPointStep ==
    last'.op = "getPoint" =>
        LET a == last'.args
        IN  IF \/ ~Present(a.handle, "getPoint")
               \/ a.sampleOffset = 0
               \/ a.value = 0
            THEN /\ last'.ret = 1
                 /\ last'.events = << >>
                 /\ callerMem' = callerMem
            ELSE /\ last'.events =
                       << HostCall("getPoint", a.handle.addr, << a.index, a.sampleOffset >>) >>
                 /\ last'.ret = a.host.result
                 /\ callerMem'[ValueCell] =
                       IF a.host.result = 0 THEN a.host.value ELSE callerMem[ValueCell]
                 /\ callerMem'[EventCell] = callerMem[EventCell]

C16_GetPoint == [][C16_GetPointStep]_vars

\* the host fails after an earlier success: *value keeps the earlier value
C16_Witness ==
    /\ last.op = "getPoint"
    /\ Present(last.args.handle, "getPoint")
    /\ last.args.host.result = 1 /\ last.args.host.value = 2
    /\ last.ret = 1
    /\ Len(last.events) = 1
    /\ callerMem[ValueCell] = 1
    /\ callerMem[SampleOffsetCell] = 5

\* C17: getEvent returns kResultFalse (1) without calling the host list when
\* eventList or event is NULL or when the list's vtable or its getEvent
\* entry is NULL; otherwise it calls the host's getEvent exactly once, with
\* the given index, and returns the host's result unchanged.
C17_GetEvent ==
    last.op = "getEvent" =>
        LET a == last.args
        IN  IF ~Present(a.handle, "getEvent") \/ a.event = 0
            THEN /\ last.ret = 1
                 /\ last.events = << >>
            ELSE /\ last.events =
                       << HostCall("getEvent", a.handle.addr, << a.index, a.event >>) >>
                 /\ last.ret = a.host.result

\* the list has a vtable whose getEvent entry is NULL
C17_Witness ==
    /\ last.op = "getEvent"
    /\ last.args.handle = [addr |-> 23, lpVtbl |-> TRUE, entries |-> {"getEventCount"}]
    /\ last.args.event = EventCell
    /\ last.args.host.result = 0
    /\ last.ret = 1
    /\ last.events = << >>

\* the host method behind each helper that returns the host's value
HostMethodOf(op) ==
    IF op = "getParameterChangeCount" THEN "getParameterCount" ELSE op

\* C18: getParameterChangeCount, getParameterId, getPointCount and
\* getEventCount return 0, and getParameterData returns NULL, without
\* calling the host, when the handle, its vtable or the needed vtable entry
\* is NULL; when all three are present each calls the matching host method
\* exactly once and returns the host's value unchanged.
C18_ValueHelpers ==
    last.op \in { "getParameterChangeCount", "getParameterData", "getParameterId",
                  "getPointCount", "getEventCount" } =>
        LET a == last.args
        IN  IF ~Present(a.handle, HostMethodOf(last.op))
            THEN /\ last.ret = 0
                 /\ last.events = << >>
            ELSE /\ Len(last.events) = 1
                 /\ last.events[1].kind = "host"
                 /\ last.events[1].name = HostMethodOf(last.op)
                 /\ last.events[1].this = a.handle.addr
                 /\ last.op = "getParameterData" => last.events[1].args = << a.index >>
                 /\ last.ret = a.host

\* the queue has a vtable whose getParameterId entry is NULL
C18_Witness ==
    /\ last.op = "getParameterId"
    /\ last.args.handle =
           [addr |-> 22, lpVtbl |-> TRUE, entries |-> {"getPointCount", "getPoint"}]
    /\ last.args.host = 7
    /\ last.ret = 0
    /\ last.events = << >>

====
